---- MODULE Spec2Model ----
(***************************************************************************)
(* A model of phantom-build: the repository manager, version checkout,     *)
(* patch applier, compiler and run setup of phantombuild/phantombuild.py   *)
(* and the command-line front end of phantombuild/__main__.py.             *)
(*                                                                         *)
(* Text is modelled as a sequence of tokens (a token is one character or   *)
(* one indivisible chunk of a URL), so that str.strip, str.replace and     *)
(* str.split are computed and not assumed.  Every external command is      *)
(* recorded, in the order issued, together with its exit status.           *)
(***************************************************************************)
EXTENDS Integers, Sequences, FiniteSets, TLC

VARIABLES repoExists, origin, head, dirty, prev, last,
          hdf5Exists, buildDirExists, buildLog, binBuilt, inputFiles, runDir, lastB,
          cli, conv

repoVars == <<repoExists, origin, head, dirty, prev, last>>
fsVars == <<hdf5Exists, buildDirExists, buildLog, binBuilt, inputFiles, runDir, lastB>>
vars == <<repoVars, fsVars, cli, conv>>

(***************************************************************************)
(* Bounds of the model.                                                    *)
(***************************************************************************)
MaxOriginLen == 3
MaxFlagsLen == 5
MaxRuns == 2

None == "None"

\* an optional argument: Absent is Python's None, Some(x) a given value
Absent == <<>>

Some(x) == <<x>>

Given(opt) == opt # Absent

Value(opt) == opt[1]

(***************************************************************************)
(* Text helpers.                                                           *)
(***************************************************************************)
Whitespace == {" ", "\n"}

RECURSIVE LStrip(_)
LStrip(s) == IF s # <<>> /\ Head(s) \in Whitespace THEN LStrip(Tail(s)) ELSE s

RECURSIVE RStrip(_)
RStrip(s) ==
    IF s # <<>> /\ s[Len(s)] \in Whitespace THEN RStrip(SubSeq(s, 1, Len(s) - 1)) ELSE s

\* str.strip(): leading and trailing whitespace removed
Strip(s) == RStrip(LStrip(s))

RECURSIVE SeqsUpTo(_, _)
SeqsUpTo(S, n) ==
    IF n = 0 THEN {<<>>}
    ELSE LET shorter == SeqsUpTo(S, n - 1)
         IN  shorter \cup {Append(s, x) : s \in shorter, x \in S}

(***************************************************************************)
(* The repository manager: get_phantom.                                    *)
(***************************************************************************)
SshHost == "git@bitbucket.org:"
HttpsHost == "https://bitbucket.org/"
RepoPath == "danielprice/phantom"
DotGit == ".git"

CloneUrl == <<HttpsHost, RepoPath, DotGit>>

AcceptedOrigins ==
    { <<SshHost, RepoPath>>,
      <<SshHost, RepoPath, DotGit>>,
      <<HttpsHost, RepoPath>>,
      <<HttpsHost, RepoPath, DotGit>> }

OriginTokens == {SshHost, HttpsHost, RepoPath, DotGit, " ", "x"}

\* every value `remote.origin.url` may hold, the unset one (empty) included
Origins == SeqsUpTo(OriginTokens, MaxOriginLen)

\* what `git config --local --get remote.origin.url` prints: the value and a newline
GitConfigStdout(url) == IF url = <<>> THEN <<>> ELSE Append(url, "\n")

Cmd(name, arg, rc) == [name |-> name, arg |-> arg, rc |-> rc]

OriginAccepted_NoStrip(out) == out \in AcceptedOrigins

\* the test of get_phantom on a directory that exists
OriginAccepted(out) == Strip(out) \in AcceptedOrigins

Commits == {"c1", "c2"}

ShortHash(c) == IF c = "c1" THEN <<"a", "1">> ELSE <<"b", "2">>

FullHash(c) == ShortHash(c) \o (IF c = "c1" THEN <<"f", "0">> ELSE <<"e", "9">>)

NoRef == <<>>

CallRecord(op, ref, pre, cmds, outcome) ==
    [op |-> op, ref |-> ref, pre |-> pre, cmds |-> cmds, outcome |-> outcome]

PreState == [exists |-> repoExists, origin |-> origin, head |-> head, dirty |-> dirty]

NoCall == CallRecord("none", NoRef,
                     [exists |-> FALSE, origin |-> <<>>, head |-> "c1", dirty |-> {}],
                     <<>>, None)

Summary(r) == [op |-> r.op, ref |-> r.ref, outcome |-> r.outcome]

\* get_phantom(phantom_dir); cloneRc is the exit status of `git clone`
get_phantom(cloneRc) ==
    /\ IF ~repoExists
       THEN /\ last' = CallRecord("get_phantom", NoRef, PreState,
                                  <<Cmd("git clone", CloneUrl, cloneRc)>>,
                                  IF cloneRc # 0 THEN "RepoError" ELSE "True")
            /\ IF cloneRc = 0
               THEN /\ repoExists' = TRUE
                    /\ origin' = CloneUrl
                    /\ head' \in Commits
                    /\ dirty' = {}
               ELSE UNCHANGED <<repoExists, origin, head, dirty>>
       ELSE /\ last' = CallRecord("get_phantom", NoRef, PreState,
                                  <<Cmd("git config --local --get remote.origin.url", <<>>,
                                        IF origin = <<>> THEN 1 ELSE 0)>>,
                                  IF ~OriginAccepted(GitConfigStdout(origin))
                                  THEN "RepoError" ELSE "True")
            /\ UNCHANGED <<repoExists, origin, head, dirty>>
    /\ prev' = Summary(last)

(***************************************************************************)
(* Version checkout: checkout_phantom_version.                             *)
(***************************************************************************)
\* the forms --phantom-version takes: the long or the short hash of a commit
Refs == {FullHash(c) : c \in Commits} \cup {ShortHash(c) : c \in Commits}

Resolvable(ref) == \E c \in Commits : ref \in {FullHash(c), ShortHash(c)}

\* the commit a ref names
Resolve(ref) == CHOOSE c \in Commits : ref \in {FullHash(c), ShortHash(c)}

\* `git rev-parse HEAD`, stripped
RevParseHead(h) == Strip(Append(FullHash(h), "\n"))

\* `git rev-parse --short <ref>`, stripped (empty for a ref git does not know)
RevParseShort(ref) ==
    IF Resolvable(ref) THEN Strip(Append(ShortHash(Resolve(ref)), "\n")) ELSE <<>>

DirtKinds == {"staged", "untracked", "unstaged"}

\* `git status --porcelain`, stripped: one line per kind of change
RECURSIVE git_status(_)
git_status(d) ==
    IF d = {} THEN <<>>
    ELSE LET k == CHOOSE x \in d : TRUE
         IN  Strip(<<k, "\n">> \o git_status(d \ {k}))

\* what each clean sub-step leaves of the changes when it exits zero
AfterReset(d, rc) ==
    IF rc # 0 THEN d
    ELSE IF "staged" \in d THEN (d \ {"staged"}) \cup {"unstaged"} ELSE d

AfterClean(d, rc) == IF rc # 0 THEN d ELSE d \ {"untracked"}

AfterDiscard(d, rc) == IF rc # 0 THEN d ELSE d \ {"unstaged"}

ResetCmd(rc) == Cmd("git reset HEAD", <<>>, rc)

CleanCmd(rc) == Cmd("git clean --force", <<>>, rc)

DiscardCmd(rc) == Cmd("git checkout -- *", <<>>, rc)

CheckoutCmd(ref, rc) == Cmd("git checkout", ref, rc)

CleanNames == {"git reset HEAD", "git clean --force", "git checkout -- *"}

CleanCmds_StopAtFailure(rc1, rc2, rc3) ==
    IF rc1 # 0 THEN <<ResetCmd(rc1)>>
    ELSE IF rc2 # 0 THEN <<ResetCmd(rc1), CleanCmd(rc2)>>
    ELSE <<ResetCmd(rc1), CleanCmd(rc2), DiscardCmd(rc3)>>

\* the three sub-steps of the clean sequence, all run before any status is looked at
CleanCmds(rc1, rc2, rc3) == <<ResetCmd(rc1), CleanCmd(rc2), DiscardCmd(rc3)>>

AnyFailed(cmds) == \E i \in 1..Len(cmds) : cmds[i].rc # 0

\* the changes left by the sub-steps that were run
RECURSIVE AfterCmds(_, _)
AfterCmds(d, cmds) ==
    IF cmds = <<>> THEN d
    ELSE LET c == Head(cmds)
             d1 == IF c.name = "git reset HEAD" THEN AfterReset(d, c.rc)
                   ELSE IF c.name = "git clean --force" THEN AfterClean(d, c.rc)
                   ELSE IF c.name = "git checkout -- *" THEN AfterDiscard(d, c.rc)
                   ELSE d
         IN  AfterCmds(d1, Tail(cmds))

Ran(cmds, outcome, h, d) == [cmds |-> cmds, outcome |-> outcome, head |-> h, dirty |-> d]

\* lines 172-191: status, then the clean sequence when the tree is not clean
CheckClean(sofar, h, d, rc1, rc2, rc3) ==
    LET status == Cmd("git status --porcelain", <<>>, 0)
        clean == CleanCmds(rc1, rc2, rc3)
    IN  IF git_status(d) # <<>>
        THEN Ran(sofar \o <<status>> \o clean,
                 IF AnyFailed(clean) THEN "RepoError" ELSE "True",
                 h, AfterCmds(d, clean))
        ELSE Ran(sofar \o <<status>>, "True", h, d)

CheckoutRun_CleanFirst(h, d, required, coRc, rc1, rc2, rc3) ==
    LET probes == << Cmd("git rev-parse HEAD", <<>>, 0),
                     Cmd("git rev-parse --short", required,
                         IF Resolvable(required) THEN 0 ELSE 1) >>
        cleaned == CheckClean(probes, h, d, rc1, rc2, rc3)
    IN  IF cleaned.outcome # "True" THEN cleaned
        ELSE IF RevParseHead(h) # required
        THEN IF coRc # 0
             THEN Ran(cleaned.cmds \o <<CheckoutCmd(required, coRc)>>, "RepoError",
                      h, cleaned.dirty)
             ELSE Ran(cleaned.cmds \o <<CheckoutCmd(required, coRc)>>, "True",
                      Resolve(required), cleaned.dirty)
        ELSE cleaned

\* lines 144-191 of checkout_phantom_version, from the state (h, d) of the working copy
CheckoutRun(h, d, required, coRc, rc1, rc2, rc3) ==
    LET probes == << Cmd("git rev-parse HEAD", <<>>, 0),
                     Cmd("git rev-parse --short", required,
                         IF Resolvable(required) THEN 0 ELSE 1) >>
    IN  IF RevParseHead(h) # required
        THEN IF coRc # 0
             THEN Ran(probes \o <<CheckoutCmd(required, coRc)>>, "RepoError", h, d)
             ELSE CheckClean(probes \o <<CheckoutCmd(required, coRc)>>,
                             Resolve(required), d, rc1, rc2, rc3)
        ELSE CheckClean(probes, h, d, rc1, rc2, rc3)

Rcs == {0, 1}

\* checkout_phantom_version(phantom_dir, required_phantom_git_commit_hash), called on
\* a working copy that exists (the orchestrator calls it after get_phantom); coRc and
\* rc1..rc3 are the exit statuses of `git checkout <hash>` and of the clean sub-steps
checkout_phantom_version(required, coRc, rc1, rc2, rc3) ==
    /\ repoExists
    /\ IF Resolvable(required) THEN TRUE ELSE coRc # 0
    /\ \E run \in {CheckoutRun(head, dirty, required, coRc, rc1, rc2, rc3)} :
          LET issued(names) == \E i \in 1..Len(run.cmds) : run.cmds[i].name \in names
          IN  \* the exit status of a command that is not issued is no input
              /\ IF issued({"git checkout"}) THEN TRUE ELSE coRc = 0
              /\ IF issued(CleanNames) THEN TRUE ELSE rc1 = 0 /\ rc2 = 0 /\ rc3 = 0
              /\ last' = CallRecord("checkout", required, PreState, run.cmds, run.outcome)
              /\ head' = run.head
              /\ dirty' = run.dirty
    /\ prev' = Summary(last)
    /\ UNCHANGED <<repoExists, origin>>

(***************************************************************************)
(* The patch applier: patch_phantom.                                       *)
(***************************************************************************)
PatchFile == <<"fix.patch">>

\* patch_phantom(phantom_dir, phantom_patch), called on a working copy that exists; a
\* patch that applies changes tracked files
patch_phantom(rc) ==
    /\ repoExists
    /\ last' = CallRecord("patch", PatchFile, PreState,
                          <<Cmd("git apply", PatchFile, rc)>>,
                          IF rc # 0 THEN "PatchError" ELSE "True")
    /\ dirty' = IF rc = 0 THEN dirty \cup {"unstaged"} ELSE dirty
    /\ prev' = Summary(last)
    /\ UNCHANGED <<repoExists, origin, head>>

(***************************************************************************)
(* The user, between two calls: edits, stages or adds files in the tree.   *)
(***************************************************************************)
EditTree(k) ==
    /\ repoExists
    /\ k \notin dirty
    /\ dirty' = dirty \cup {k}
    /\ UNCHANGED <<repoExists, origin, head, prev, last>>

\* the user sets remote.origin.url of an existing working copy
SetOrigin(url) ==
    /\ repoExists
    /\ origin' = url
    /\ UNCHANGED <<repoExists, head, dirty, prev, last>>

(***************************************************************************)
(* The compiler: build_phantom.                                            *)
(***************************************************************************)
NoRunDir == [exists |-> FALSE, bins |-> FALSE, setup |-> FALSE, infile |-> "absent",
             log |-> "absent"]

SetupName == <<"disc">>
SystemName == <<"gfortran">>
Hdf5Path == <<"/opt/hdf5">>

\* extra_makefile_options: None, or a dict kept as its items in insertion order
ExtraOptions ==
    {Absent, Some(<<>>), Some(<< <<"A", "1">> >>), Some(<< <<"A", "1">>, <<"B", "2">> >>)}

Hdf5Locations == {Absent, Some(Hdf5Path)}

OptionArgs(items) == [i \in 1..Len(items) |-> <<items[i][1], "=", items[i][2]>>]

\* lines 265-274: the make command line, one token sequence per argument
make_command(hdf5, extra) ==
    << <<"make">>, <<"SETUP=">> \o SetupName, <<"SYSTEM=">> \o SystemName,
       <<"phantom">>, <<"setup">> >>
    \o (IF Given(hdf5) THEN << <<"HDF5=yes">>, <<"HDF5ROOT=">> \o Value(hdf5) >> ELSE <<>>)
    \o (IF Given(extra) THEN OptionArgs(Value(extra)) ELSE <<>>)

\* lines 267-270: a location is given and is not on disk
Hdf5Missing(hdf5, exists) == Given(hdf5) /\ ~exists

\* a call of the compiler or of the run setup: its arguments and what it met (args),
\* the file operations (steps) and commands (cmds) it performed, in order, how it
\* ended (outcome) and the run directory as it left it (rd)
BuildRecord(op, args, steps, cmds, outcome, rd) ==
    [op |-> op, args |-> args, steps |-> steps, cmds |-> cmds, outcome |-> outcome,
     rd |-> rd]

CallArgsB(hdf5, exit, rewrites, log) ==
    [hdf5 |-> hdf5, exit |-> exit, rewrites |-> rewrites, log |-> log]

NoBuild == BuildRecord("none", CallArgsB(Absent, 0, FALSE, "absent"), <<>>, <<>>, None,
                       NoRunDir)

BuildRun_OpenFirst(hdf5, extra, rc) ==
    IF ~buildDirExists
    THEN [steps |-> <<>>, cmds |-> <<>>, outcome |-> "FileNotFoundError",
          log |-> buildLog, built |-> binBuilt]
    ELSE IF Hdf5Missing(hdf5, hdf5Exists)
    THEN [steps |-> <<"open build_output.log w">>, cmds |-> <<>>,
          outcome |-> "HDF5LibraryNotFound", log |-> "empty", built |-> binBuilt]
    ELSE [steps |-> <<"open build_output.log w">>,
          cmds |-> <<Cmd("make", make_command(hdf5, extra), rc)>>,
          outcome |-> IF rc # 0 THEN "CompileError" ELSE "True",
          log |-> "written", built |-> (binBuilt \/ rc = 0)]

\* lines 263-288 of build_phantom
BuildRun(hdf5, extra, rc) ==
    IF Hdf5Missing(hdf5, hdf5Exists)
    THEN [steps |-> <<>>, cmds |-> <<>>, outcome |-> "HDF5LibraryNotFound",
          log |-> buildLog, built |-> binBuilt]
    ELSE IF ~buildDirExists
    THEN [steps |-> <<>>, cmds |-> <<>>, outcome |-> "FileNotFoundError",
          log |-> buildLog, built |-> binBuilt]
    ELSE [steps |-> <<"open build_output.log w">>,
          cmds |-> <<Cmd("make", make_command(hdf5, extra), rc)>>,
          outcome |-> IF rc # 0 THEN "CompileError" ELSE "True",
          log |-> "written", built |-> (binBuilt \/ rc = 0)]

\* build_phantom(phantom_dir, setup, system, hdf5_location, extra_makefile_options)
build_phantom(hdf5, extra, rc) ==
    /\ \E run \in {BuildRun(hdf5, extra, rc)} :
           /\ lastB' = BuildRecord("build", CallArgsB(hdf5, rc, FALSE, buildLog),
                                   run.steps, run.cmds, run.outcome, runDir)
           /\ buildLog' = run.log
           /\ binBuilt' = run.built
    /\ UNCHANGED <<hdf5Exists, buildDirExists, inputFiles, runDir>>

(***************************************************************************)
(* Run setup: setup_calculation.                                           *)
(***************************************************************************)

\* Popen.returncode stays None until poll() or wait() is called; setup_calculation
\* only reads the pipe to its end, so the attribute is read unset
PopenReturncode(exit) == [known |-> FALSE, val |-> exit]

\* Python's `returncode != 0`: None differs from 0
NotZero(returncode) == IF returncode.known THEN returncode.val # 0 ELSE TRUE

\* line 340
SetupFailed(returncode) == NotZero(returncode)

SetupRun_CopyBeforeCheck(rd, exit, rewrites) ==
    LET made == [rd EXCEPT !.exists = TRUE]
        mk == IF rd.exists THEN <<>> ELSE <<"mkdir run_dir">>
        cmd == Cmd("./phantomsetup", SetupName, exit)
        ran == [made EXCEPT !.bins = TRUE, !.setup = TRUE, !.infile = "fresh",
                            !.log = "written"]
        steps == mk \o <<"copy bin", "copy .setup", "copy .in", "open 00.log w",
                         "copy .in">>
    IN  IF ~binBuilt
        THEN [rd |-> made, steps |-> mk, cmds |-> <<>>, outcome |-> "FileNotFoundError"]
        ELSE IF "setup" \notin inputFiles
        THEN [rd |-> [made EXCEPT !.bins = TRUE], steps |-> mk \o <<"copy bin">>,
              cmds |-> <<>>, outcome |-> "FileNotFoundError"]
        ELSE IF "in" \notin inputFiles
        THEN [rd |-> [made EXCEPT !.bins = TRUE, !.setup = TRUE],
              steps |-> mk \o <<"copy bin", "copy .setup">>,
              cmds |-> <<>>, outcome |-> "FileNotFoundError"]
        ELSE [rd |-> ran, steps |-> steps, cmds |-> <<cmd>>,
              outcome |-> IF SetupFailed(PopenReturncode(exit))
                          THEN "SetupError" ELSE "True"]

\* lines 315-348 of setup_calculation, from the run directory rd
SetupRun(rd, exit, rewrites) ==
    LET made == [rd EXCEPT !.exists = TRUE]
        mk == IF rd.exists THEN <<>> ELSE <<"mkdir run_dir">>
        cmd == Cmd("./phantomsetup", SetupName, exit)
        ran == [made EXCEPT !.bins = TRUE, !.setup = TRUE,
                            !.infile = IF rewrites THEN "rewritten" ELSE "fresh",
                            !.log = "written"]
        steps == mk \o <<"copy bin", "copy .setup", "copy .in", "open 00.log w">>
    IN  IF ~binBuilt
        THEN [rd |-> made, steps |-> mk, cmds |-> <<>>, outcome |-> "FileNotFoundError"]
        ELSE IF "setup" \notin inputFiles
        THEN [rd |-> [made EXCEPT !.bins = TRUE], steps |-> mk \o <<"copy bin">>,
              cmds |-> <<>>, outcome |-> "FileNotFoundError"]
        ELSE IF "in" \notin inputFiles
        THEN [rd |-> [made EXCEPT !.bins = TRUE, !.setup = TRUE],
              steps |-> mk \o <<"copy bin", "copy .setup">>,
              cmds |-> <<>>, outcome |-> "FileNotFoundError"]
        ELSE IF SetupFailed(PopenReturncode(exit))
        THEN [rd |-> ran, steps |-> steps, cmds |-> <<cmd>>, outcome |-> "SetupError"]
        ELSE [rd |-> [ran EXCEPT !.infile = "fresh"], steps |-> Append(steps, "copy .in"),
              cmds |-> <<cmd>>, outcome |-> "True"]

\* setup_calculation(prefix, run_dir, input_dir, phantom_dir); exit is the status the
\* setup binary exits with, rewrites whether it rewrote {prefix}.in in place
setup_calculation(exit, rewrites) ==
    /\ \E run \in {SetupRun(runDir, exit, rewrites)} :
           /\ lastB' = BuildRecord("setup", CallArgsB(Absent, exit, rewrites, buildLog),
                                   run.steps, run.cmds, run.outcome, run.rd)
           /\ runDir' = run.rd
    /\ UNCHANGED <<hdf5Exists, buildDirExists, buildLog, binBuilt, inputFiles>>

\* the user removes the run directory between two calls
RemoveRunDir ==
    /\ runDir.exists
    /\ runDir' = NoRunDir
    /\ UNCHANGED <<hdf5Exists, buildDirExists, buildLog, binBuilt, inputFiles, lastB>>

(***************************************************************************)
(* The command-line front end: _convert_make_options_to_dict and main.     *)
(***************************************************************************)
RECURSIVE Remove(_, _)
\* str.replace(c, '')
Remove(s, c) ==
    IF s = <<>> THEN <<>>
    ELSE IF Head(s) = c THEN Remove(Tail(s), c)
    ELSE <<Head(s)>> \o Remove(Tail(s), c)

RECURSIVE Split(_, _)
\* str.split(sep): the pieces between every occurrence of sep
Split(s, sep) ==
    IF \A i \in 1..Len(s) : s[i] # sep THEN <<s>>
    ELSE LET i == CHOOSE j \in 1..Len(s) :
                      s[j] = sep /\ \A k \in 1..(j - 1) : s[k] # sep
         IN  <<SubSeq(s, 1, i - 1)>> \o Split(SubSeq(s, i + 1, Len(s)), sep)

\* d[k] = v on a dict kept as its items in insertion order
DictSet(items, k, v) ==
    IF \E i \in 1..Len(items) : items[i][1] = k
    THEN [i \in 1..Len(items) |-> IF items[i][1] = k THEN <<k, v>> ELSE items[i]]
    ELSE Append(items, <<k, v>>)

RECURSIVE DictOf(_, _)
DictOf(pairs, items) ==
    IF pairs = <<>> THEN items
    ELSE DictOf(Tail(pairs), DictSet(items, Head(pairs)[1], Head(pairs)[2]))

\* line 137: _s.split('=')[0] and _s.split('=')[1] of every piece of string.split(',')
_convert_make_options_to_dict(string) ==
    LET stripped == Remove(string, " ")
        pieces == Split(stripped, ",")
        parts == [i \in 1..Len(pieces) |-> Split(pieces[i], "=")]
    IN  IF \E i \in 1..Len(parts) : Len(parts[i]) < 2
        THEN [outcome |-> "IndexError", dict |-> <<>>]
        ELSE [outcome |-> "dict",
              dict |-> DictOf([i \in 1..Len(parts) |-> <<parts[i][1], parts[i][2]>>], <<>>)]

FlagChars == {"A", "1", "=", ",", " "}

FlagStrings == SeqsUpTo(FlagChars, MaxFlagsLen)

\* _convert_make_options_to_dict(string)
ConvertCall ==
    /\ ~conv.done
    /\ conv' = [conv EXCEPT !.done = TRUE, !.result = _convert_make_options_to_dict(conv.input)]
    /\ UNCHANGED <<repoVars, fsVars, cli>>

\* the values of a repeated option, in the order given
Values(name, n) == [i \in 1..n |-> <<name, i>>]

CliFlagStrings ==
    { <<"A", "=", "1">>, <<"A", "=", "1", ",", " ", "B", "=", "2">>, <<"A">> }

CountsMatch_FirstTwo(a, b, c) == Len(a) = Len(b)

\* line 104: len(run_dir) == len(run_setup_file) == len(run_in_file)
CountsMatch(a, b, c) == Len(a) = Len(b) /\ Len(b) = Len(c)

Min(a, b) == IF a < b THEN a ELSE b

\* the stages of one build_and_setup call, in order
OrchestratorStages(version, patches) ==
    <<"get_phantom">>
    \o (IF Given(version) THEN <<"checkout_phantom_version">> ELSE <<>>)
    \o [i \in 1..Len(patches) |-> "patch_phantom"]
    \o <<"build_phantom", "setup_calculation">>

StageError(stage) ==
    IF stage \in {"get_phantom", "checkout_phantom_version"} THEN "RepoError"
    ELSE IF stage = "patch_phantom" THEN "PatchError"
    ELSE IF stage = "build_phantom" THEN "CompileError"
    ELSE "SetupError"

\* build_and_setup(...): failStage is the stage that raises, 0 when none does
build_and_setup(call, failStage) ==
    LET stages == OrchestratorStages(call.phantom_version, call.phantom_patches)
    IN  IF failStage \in 1..Len(stages)
        THEN [stages |-> SubSeq(stages, 1, failStage),
              outcome |-> StageError(stages[failStage])]
        ELSE [stages |-> stages, outcome |-> "None"]

\* lines 119-132: the arguments of the i-th call
CallArgs(a, i, dir, patches, flags) ==
    [run_dir |-> a.run_dir[i], setup_file |-> a.run_setup_file[i],
     in_file |-> a.run_in_file[i], phantom_dir |-> dir,
     phantom_version |-> a.phantom_version, phantom_patches |-> patches,
     phantom_extra_flags |-> flags]

RECURSIVE Loop(_, _, _, _, _, _, _, _)
\* lines 117-132: the loop over zip(run_dir, run_setup_file, run_in_file) from index i
Loop(a, i, n, dir, patches, flags, failCall, failStage) ==
    IF i > n THEN [outcome |-> "None", calls |-> <<>>]
    ELSE IF ~Given(flags) THEN [outcome |-> "UnboundLocalError", calls |-> <<>>]
    ELSE LET call == CallArgs(a, i, dir, patches, Value(flags))
             res == build_and_setup(call, IF i = failCall THEN failStage ELSE 0)
             done == [args |-> call, stages |-> res.stages, outcome |-> res.outcome]
         IN  IF res.outcome # "None"
             THEN [outcome |-> res.outcome, calls |-> <<done>>]
             ELSE LET rest == Loop(a, i + 1, n, dir, patches, flags, failCall, failStage)
                  IN  [outcome |-> rest.outcome, calls |-> <<done>> \o rest.calls]

DefaultPhantomDir == <<"phantom">>

\* lines 104-132 of main; flags is the binding of _phantom_extra_flags, Absent while
\* the name is unbound
MainRun(a, failCall, failStage) ==
    IF ~CountsMatch(a.run_dir, a.run_setup_file, a.run_in_file)
    THEN [outcome |-> "ValueError", calls |-> <<>>]
    ELSE LET dir == IF Given(a.phantom_dir) THEN Value(a.phantom_dir)
                    ELSE DefaultPhantomDir
             patches == a.phantom_patch
             conversion == IF Given(a.phantom_extra_flags)
                           THEN _convert_make_options_to_dict(Value(a.phantom_extra_flags))
                           ELSE [outcome |-> "dict", dict |-> <<>>]
             flags == IF Given(a.phantom_extra_flags) THEN Some(conversion.dict)
                      ELSE Absent
             n == Min(Len(a.run_dir), Min(Len(a.run_setup_file), Len(a.run_in_file)))
         IN  IF conversion.outcome = "IndexError"
             THEN [outcome |-> "IndexError", calls |-> <<>>]
             ELSE Loop(a, 1, n, dir, patches, flags, failCall, failStage)

CliArgs ==
    [run_dir : {Values("run-dir", n) : n \in 1..MaxRuns},
     run_setup_file : {Values("run-setup-file", n) : n \in 1..MaxRuns},
     run_in_file : {Values("run-in-file", n) : n \in 1..MaxRuns},
     phantom_extra_flags : {Absent} \cup {Some(f) : f \in CliFlagStrings},
     phantom_dir : {Absent, Some(<<"src", "/", "phantom">>)},
     phantom_version : {Absent, Some(ShortHash("c1"))},
     phantom_patch : {<<>>, <<PatchFile>>}]

\* main(...), as click calls it
main(failCall, failStage) ==
    /\ ~cli.done
    /\ \E run \in {MainRun(cli.args, failCall, failStage)} :
           cli' = [cli EXCEPT !.done = TRUE, !.outcome = run.outcome, !.calls = run.calls]
    /\ UNCHANGED <<repoVars, fsVars, conv>>

(***************************************************************************)
(* Specifications.                                                         *)
(***************************************************************************)
RepoIdle ==
    /\ repoExists = FALSE /\ origin = <<>> /\ head = "c1" /\ dirty = {}
    /\ prev = Summary(NoCall) /\ last = NoCall

FsIdle ==
    /\ hdf5Exists = FALSE /\ buildDirExists = FALSE /\ buildLog = "absent"
    /\ binBuilt = FALSE /\ inputFiles = {} /\ runDir = NoRunDir /\ lastB = NoBuild

CliIdle == cli = [args |-> <<>>, done |-> TRUE, outcome |-> None, calls |-> <<>>]

ConvIdle == conv = [input |-> <<>>, done |-> TRUE,
                    result |-> [outcome |-> None, dict |-> <<>>]]

\* the working copy: absent, or present with HEAD on any commit and any changes
InitRepo ==
    /\ repoExists \in BOOLEAN
    /\ origin = IF repoExists THEN CloneUrl ELSE <<>>
    /\ head \in (IF repoExists THEN Commits ELSE {"c1"})
    /\ dirty \in (IF repoExists THEN SUBSET DirtKinds ELSE {{}})
    /\ prev = Summary(NoCall)
    /\ last = NoCall

Init == InitRepo /\ FsIdle /\ CliIdle /\ ConvIdle

Next ==
    \/ \E rc \in Rcs : get_phantom(rc) /\ UNCHANGED <<fsVars, cli, conv>>
    \/ \E ref \in Refs, coRc \in Rcs, rc1 \in Rcs, rc2 \in Rcs, rc3 \in Rcs :
          checkout_phantom_version(ref, coRc, rc1, rc2, rc3) /\ UNCHANGED <<fsVars, cli, conv>>
    \/ \E rc \in Rcs : patch_phantom(rc) /\ UNCHANGED <<fsVars, cli, conv>>
    \/ \E k \in DirtKinds : EditTree(k) /\ UNCHANGED <<fsVars, cli, conv>>

\* the repository manager and the version checkout, on one working copy
Spec == Init /\ [][Next]_vars

InitOrigin ==
    /\ repoExists \in BOOLEAN
    /\ origin \in (IF repoExists THEN Origins ELSE {<<>>})
    /\ head = "c1" /\ dirty = {}
    /\ prev = Summary(NoCall) /\ last = NoCall
    /\ FsIdle /\ CliIdle /\ ConvIdle

NextOrigin ==
    \/ \E rc \in Rcs : get_phantom(rc) /\ UNCHANGED <<fsVars, cli, conv>>
    \/ \E url \in AcceptedOrigins \cup {<<"x">>} :
          SetOrigin(url) /\ UNCHANGED <<fsVars, cli, conv>>

\* the repository manager, on a directory with any origin
SpecOrigin == InitOrigin /\ [][NextOrigin]_vars

InitBuild ==
    /\ RepoIdle /\ CliIdle /\ ConvIdle
    /\ hdf5Exists \in BOOLEAN
    /\ buildDirExists \in BOOLEAN
    /\ buildLog \in (IF buildDirExists THEN {"absent", "old"} ELSE {"absent"})
    /\ binBuilt = FALSE
    /\ inputFiles \in SUBSET {"setup", "in"}
    /\ runDir = NoRunDir
    /\ lastB = NoBuild

NextBuild ==
    \/ \E hdf5 \in Hdf5Locations, extra \in ExtraOptions, rc \in Rcs :
          build_phantom(hdf5, extra, rc) /\ UNCHANGED <<repoVars, cli, conv>>
    \/ \E exit \in Rcs, rewrites \in BOOLEAN :
          setup_calculation(exit, rewrites) /\ UNCHANGED <<repoVars, cli, conv>>
    \/ RemoveRunDir /\ UNCHANGED <<repoVars, cli, conv>>

\* the compiler and the run setup, on one source tree and one run directory
SpecBuild == InitBuild /\ [][NextBuild]_vars

InitCli ==
    /\ RepoIdle /\ FsIdle /\ ConvIdle
    /\ cli \in [args : CliArgs, done : {FALSE}, outcome : {None}, calls : {<<>>}]

NextCli == \E failCall \in 0..MaxRuns, failStage \in 1..Len(OrchestratorStages(
                   cli.args.phantom_version, cli.args.phantom_patch)) :
               main(failCall, failStage)

\* one invocation of the command-line front end
SpecCli == InitCli /\ [][NextCli]_vars

InitConvert ==
    /\ RepoIdle /\ FsIdle /\ CliIdle
    /\ conv \in [input : FlagStrings, done : {FALSE},
                 result : {[outcome |-> None, dict |-> <<>>]}]

NextConvert == ConvertCall

\* _convert_make_options_to_dict on every string of the bounded alphabet
SpecConvert == InitConvert /\ [][NextConvert]_vars

(***************************************************************************)
(* Properties.                                                             *)
(***************************************************************************)
Names(cmds) == [i \in 1..Len(cmds) |-> cmds[i].name]

Issued(cmds, names) == \E i \in 1..Len(cmds) : cmds[i].name \in names

GetOnExisting == last.op = "get_phantom" /\ last.pre.exists

\* C1, as stated: on a directory that exists get_phantom returns True when the origin
\* URL is one of the four accepted forms and raises RepoError for every other origin
\* string; no clone command is issued either way.
C1_ExactMatch ==
    GetOnExisting =>
        /\ last.outcome = (IF last.pre.origin \in AcceptedOrigins THEN "True" ELSE "RepoError")
        /\ ~Issued(last.cmds, {"git clone"})

\* C1, amended: on a directory that exists get_phantom returns True when the origin
\* URL with its leading and trailing whitespace removed is one of the four accepted
\* forms and raises RepoError for every other origin string; no clone command is
\* issued either way.
C1_MatchAfterStrip ==
    GetOnExisting =>
        /\ last.outcome =
               (IF \E pad1, pad2 \in SeqsUpTo(Whitespace, MaxOriginLen), url \in AcceptedOrigins :
                       last.pre.origin = pad1 \o url \o pad2
                THEN "True" ELSE "RepoError")
        /\ ~Issued(last.cmds, {"git clone"})

C1_Witness ==
    /\ GetOnExisting
    /\ last.pre.origin = <<" ", HttpsHost, RepoPath>>
    /\ last.outcome = "True"

ConsecutiveCheckouts ==
    /\ prev.op = "checkout" /\ prev.outcome = "True"
    /\ last.op = "checkout"
    /\ Resolve(last.ref) = Resolve(prev.ref)

\* C2: after a successful checkout_phantom_version call, a second call in a row for
\* the same target commit, in the long or the short form of its hash, issues no
\* `git checkout <hash>` and still runs the clean sequence when the tree is dirty.
C2_SecondCheckoutIssuesNone ==
    ConsecutiveCheckouts =>
        /\ ~Issued(last.cmds, {"git checkout"})
        /\ last.pre.dirty # {} =>
               SubSeq(Names(last.cmds), Len(last.cmds) - 2, Len(last.cmds))
                   = Names(CleanCmds(0, 0, 0))

SetupRan == lastB.op = "setup" /\ lastB.cmds # <<>>

CopiesOfIn == Cardinality({i \in 1..Len(lastB.steps) : lastB.steps[i] = "copy .in"})

\* C3: when the setup binary exits with status zero, setup_calculation raises no
\* setup error: it copies {prefix}.in into run_dir a second time, after the
\* invocation, and returns success.
C3_ZeroExitSucceeds ==
    (SetupRan /\ lastB.cmds[1].rc = 0) =>
        /\ lastB.outcome = "True"
        /\ CopiesOfIn = 2
        /\ lastB.steps[Len(lastB.steps)] = "copy .in"

\* C4: when the setup binary exits non-zero, setup_calculation raises SetupError,
\* performs no copy of the .in file after the invocation, and leaves in run_dir what
\* was written before and during it: the binaries, the .setup file, the .in file (as
\* the setup binary left it) and the {prefix}00.log file.
C4_NonZeroExitRaises ==
    (SetupRan /\ lastB.cmds[1].rc # 0) =>
        /\ lastB.outcome = "SetupError"
        /\ CopiesOfIn = 1
        /\ lastB.steps[Len(lastB.steps)] = "open 00.log w"
        /\ lastB.rd.exists /\ lastB.rd.bins /\ lastB.rd.setup
        /\ lastB.rd.infile = (IF lastB.args.rewrites THEN "rewritten" ELSE "fresh")
        /\ lastB.rd.log = "written"

C4_Witness ==
    /\ SetupRan /\ lastB.cmds[1].rc # 0
    /\ lastB.outcome = "SetupError"
    /\ lastB.rd.infile = "rewritten"

\* C5: build_phantom with an hdf5_location that is not on disk raises
\* HDF5LibraryNotFound, issues no make invocation and neither opens nor truncates
\* the build log.
C5_MissingHdf5 ==
    (lastB.op = "build" /\ Given(lastB.args.hdf5) /\ ~hdf5Exists) =>
        /\ lastB.outcome = "HDF5LibraryNotFound"
        /\ lastB.cmds = <<>>
        /\ lastB.steps = <<>>
        /\ buildLog = lastB.args.log

C5_Witness ==
    /\ lastB.op = "build" /\ Given(lastB.args.hdf5) /\ ~hdf5Exists
    /\ buildDirExists /\ buildLog = "old"
    /\ lastB.outcome = "HDF5LibraryNotFound"

CountsDiffer ==
    \/ Len(cli.args.run_dir) # Len(cli.args.run_setup_file)
    \/ Len(cli.args.run_dir) # Len(cli.args.run_in_file)
    \/ Len(cli.args.run_setup_file) # Len(cli.args.run_in_file)

\* C6: main raises the validation error whenever the numbers of --run-dir,
\* --run-setup-file and --run-in-file values are not all equal, before the
\* orchestrator is invoked for any run (so before any external command).
C6_CountsValidated ==
    (cli.done /\ CountsDiffer) => (cli.outcome = "ValueError" /\ cli.calls = <<>>)

C6_Witness ==
    /\ cli.done
    /\ Len(cli.args.run_dir) = Len(cli.args.run_setup_file)
    /\ Len(cli.args.run_in_file) # Len(cli.args.run_dir)
    /\ Given(cli.args.phantom_extra_flags)
    /\ cli.outcome = "ValueError"

WellFormedFlags(opt) ==
    Given(opt) =>
        LET pieces == Split(Remove(Value(opt), " "), ",")
        IN  \A i \in 1..Len(pieces) : \E j \in 1..Len(pieces[i]) : pieces[i][j] = "="

NoCallFailed == \A i \in 1..Len(cli.calls) : cli.calls[i].outcome = "None"

\* C7: for every valid invocation (equal counts N >= 1, each optional flag given or
\* omitted), provided no orchestrator call fails, the orchestrator is invoked exactly
\* N times, once per zipped run descriptor in the order given, each time with the
\* same build configuration.
C7_OneCallPerRun ==
    (cli.done /\ ~CountsDiffer /\ WellFormedFlags(cli.args.phantom_extra_flags)
       /\ NoCallFailed) =>
        /\ Len(cli.calls) = Len(cli.args.run_dir)
        /\ \A i \in 1..Len(cli.calls) :
              /\ cli.calls[i].args.run_dir = cli.args.run_dir[i]
              /\ cli.calls[i].args.setup_file = cli.args.run_setup_file[i]
              /\ cli.calls[i].args.in_file = cli.args.run_in_file[i]
              /\ cli.calls[i].args.phantom_extra_flags = cli.calls[1].args.phantom_extra_flags
              /\ cli.calls[i].args.phantom_dir = cli.calls[1].args.phantom_dir

\* the text before the first '=' of a pair, and all of the text after it
KeyOf(pair) == SubSeq(pair, 1, (CHOOSE j \in 1..Len(pair) :
                                    pair[j] = "=" /\ \A k \in 1..(j - 1) : pair[k] # "=") - 1)

ValueOf(pair) == SubSeq(pair, Len(KeyOf(pair)) + 2, Len(pair))

\* C8: _convert_make_options_to_dict strips the whitespace and splits every
\* comma-separated pair on its first '=' only: the key is the text before it and the
\* value all of the text after it, a value that holds '=' being kept whole.
C8_SplitOnFirstEquals ==
    (conv.done /\ WellFormedFlags(Some(conv.input))) =>
        LET pieces == Split(Remove(conv.input, " "), ",")
        IN  /\ conv.result.outcome = "dict"
            /\ conv.result.dict =
                   DictOf([i \in 1..Len(pieces) |-> <<KeyOf(pieces[i]), ValueOf(pieces[i])>>],
                          <<>>)

CleanEntered == last.op = "checkout" /\ Issued(last.cmds, CleanNames)

FirstFailure(cmds) ==
    CHOOSE i \in 1..Len(cmds) :
        cmds[i].name \in CleanNames /\ cmds[i].rc # 0
        /\ \A j \in 1..(i - 1) : ~(cmds[j].name \in CleanNames /\ cmds[j].rc # 0)

CleanFailed(cmds) == \E i \in 1..Len(cmds) : cmds[i].name \in CleanNames /\ cmds[i].rc # 0

\* C9, as stated: in checkout_phantom_version with a dirty tree, once one of the three
\* clean sub-steps exits non-zero RepoError is raised and no later sub-step command
\* is issued.
C9_StopsAtFirstFailure ==
    (CleanEntered /\ CleanFailed(last.cmds)) =>
        /\ last.outcome = "RepoError"
        /\ Len(last.cmds) = FirstFailure(last.cmds)

\* C9, amended: in checkout_phantom_version with a dirty tree all three clean
\* sub-steps are issued, in the order reset, clean, discard, whatever their exit
\* statuses; RepoError is raised after the third exactly when one of them exited
\* non-zero, and nothing is issued after it.
C9_AllThreeThenRaise ==
    (last.op = "checkout" /\ last.pre.dirty # {}
       /\ Issued(last.cmds, {"git status --porcelain"})) =>
        LET n == Len(last.cmds)
        IN  /\ n >= 4
            /\ SubSeq(Names(last.cmds), n - 3, n)
                   = <<"git status --porcelain", "git reset HEAD", "git clean --force",
                       "git checkout -- *">>
            /\ last.outcome = (IF CleanFailed(last.cmds) THEN "RepoError" ELSE "True")

C9_Witness ==
    /\ CleanEntered
    /\ Len(last.cmds) >= 3
    /\ last.cmds[Len(last.cmds) - 2].rc # 0
    /\ last.cmds[Len(last.cmds)].name = "git checkout -- *"
    /\ last.outcome = "RepoError"

DirtyAndElsewhere ==
    /\ last.op = "checkout"
    /\ last.pre.head # Resolve(last.ref)
    /\ last.pre.dirty # {}

\* C10, as stated: when HEAD differs from the required revision and the tree has
\* uncommitted changes, the changes are cleaned before the checkout of the required
\* revision is issued.
C10_CleanBeforeCheckout ==
    DirtyAndElsewhere =>
        \A i \in 1..Len(last.cmds) :
            last.cmds[i].name = "git checkout" =>
                \E j \in 1..(i - 1) : last.cmds[j].name \in CleanNames

\* C10, amended: when HEAD differs from the required revision and the tree has
\* uncommitted changes, the checkout of the required revision is issued first, on the
\* dirty tree; the changes are cleaned only after it and only if it exits zero, and a
\* checkout that fails raises RepoError with nothing cleaned.
C10_CheckoutBeforeClean ==
    DirtyAndElsewhere =>
        \E i \in 1..Len(last.cmds) :
            /\ last.cmds[i] = CheckoutCmd(last.ref, last.cmds[i].rc)
            /\ \A j \in 1..i : last.cmds[j].name \notin CleanNames
            /\ IF last.cmds[i].rc # 0
               THEN /\ last.outcome = "RepoError"
                    /\ ~Issued(last.cmds, CleanNames)
                    /\ Len(last.cmds) = i
               ELSE Issued(SubSeq(last.cmds, i + 1, Len(last.cmds)), CleanNames)

C10_Witness ==
    /\ DirtyAndElsewhere
    /\ Issued(last.cmds, {"git checkout"})
    /\ Issued(last.cmds, CleanNames)
    /\ last.outcome = "True"

====
